---- MODULE Spec2Model ----
(***************************************************************************)
(* A model of s3tools: the P2 composite repository index kept in an S3     *)
(* bucket (compositeArtifacts.xml and the derived compositeContent.xml     *)
(* under one prefix) and the operations that add a child repository to it  *)
(* and remove one from it (P2CompositeUtils.py, S3Utils.py), and the       *)
(* retention run that chooses the children to delete (ManageSnapshots.py). *)
(*                                                                         *)
(* An XML tree is a record of its elements; the bucket is the two          *)
(* composite objects plus, per child location, what is stored under        *)
(* prefix/location.  Every S3 request is one step, and may fail with a     *)
(* ClientError.                                                            *)
(***************************************************************************)
EXTENDS Integers, Sequences, FiniteSets, TLC

\* ------------------------------------------------------------------ bounds

\* The longest child list an add is started on.
MaxChildren == 3
\* The last clock reading: the clock is read as 1, 2, ..., and as MaxClock
\* from then on.
MaxClock == 2
\* The longest child list of a document found in the bucket at the start.
MaxInitial == 2
\* The longest location->last_modified mapping the retention loop is run on.
MaxSnapshots == 4
\* The day manage_snapshots runs on; last-modified days and retain_days are
\* 0..MaxDay.
MaxDay == 2
\* The largest retain_minimum and retain_maximum.
MaxRetain == 3
\* The longest child list of an index manage_snapshots is run on.
MaxIndexed == 3

\* ------------------------------------------------------------- vocabulary

\* The callers: Spec runs operations one after the other (caller 1 only).
Procs == {1, 2}

\* Child locations, as strings of characters: "a" and "ab".  "a" is a prefix
\* of "ab", so the keys under prefix/ab also start with prefix/a.
Locations == { <<"a">>, <<"a", "b">> }

\* Python's None, where a location is expected.
None == <<"None">>

\* s.startswith(t)
StartsWith(s, t) == Len(t) <= Len(s) /\ SubSeq(s, 1, Len(t)) = t

\* The sequence s without its i-th element.
RemoveAt(s, i) == SubSeq(s, 1, i - 1) \o SubSeq(s, i + 1, Len(s))

\* A <child> element: whether it has a location attribute, and its value
\* (what child.get('location') returns: None when there is none).
Child(location) == [has |-> TRUE, location |-> location]
MalformedChild == [has |-> FALSE, location |-> None]

\* ---------------------------------------------------------- the documents

\* A parsed document: the root's <properties> elements (each with its size
\* attribute and the values of its p2.timestamp properties) and its
\* <children> elements (each with its size attribute and its <child>ren).
EMPTY_COMPOSITE_ARTIFACTS_XML ==
    [type       |-> "CompositeArtifactRepository",
     properties |-> << [size |-> 1, property |-> <<0>>] >>,
     children   |-> << [size |-> 0, child |-> <<>>] >>]

EMPTY_COMPOSITE_CONTENT_XML ==
    [type       |-> "CompositeMetadataRepository",
     properties |-> << [size |-> 1, property |-> <<0>>] >>,
     children   |-> << [size |-> 0, child |-> <<>>] >>]

\* An object of the bucket: missing (a GET answers 404), bytes that are not
\* XML, or a document.
NoSuchKey == [found |-> FALSE]
NotXml == [found |-> TRUE, xml |-> FALSE]
Stored(root) == [found |-> TRUE, xml |-> TRUE, root |-> root]
IsDocument(object) == object.found /\ object.xml

\* get_properties: the first <properties>, created with size '0' when there
\* is none.  (The tree is changed in place: the root with it is returned.)
get_properties(root) ==
    IF Len(root.properties) < 1
    THEN [root EXCEPT !.properties = << [size |-> 0, property |-> <<>>] >>]
    ELSE root

\* get_children_element: the first <children>, created when there is none.
get_children_element(root) ==
    IF Len(root.children) < 1
    THEN [root EXCEPT !.children = << [size |-> 0, child |-> <<>>] >>]
    ELSE root

\* get_timestamp_property: the p2.timestamp properties of the first
\* <properties>; one is created, with value 0000000000000, when there is none.
get_timestamp_property(root) ==
    LET r == get_properties(root)
    IN  IF Len(r.properties[1].property) < 1
        THEN [r EXCEPT !.properties[1].property = <<0>>]
        ELSE r

\* update_timestamp: every p2.timestamp property gets the value.
update_timestamp(root, timestamp) ==
    LET r == get_timestamp_property(root)
    IN  [r EXCEPT !.properties[1].property =
                      [i \in 1..Len(r.properties[1].property) |-> timestamp]]

\* The <child>ren of the first <children> element.
ChildElements(root) == get_children_element(root).children[1].child

\* get_child_locations: the locations of the children that have one.
get_child_locations(root) ==
    LET kids == ChildElements(root)
        F[i \in 0..Len(kids)] ==
            IF i = 0 THEN <<>>
            ELSE IF kids[i].has THEN Append(F[i - 1], kids[i].location)
                 ELSE F[i - 1]
    IN  F[Len(kids)]

\* SetChildrenSize without the assignment: the size attribute as parsed.
SetChildrenSizeStale(root) == get_children_element(root)

\* children.attrib['size'] = str(len(children))
SetChildrenSize(root) ==
    LET r == get_children_element(root)
    IN  [r EXCEPT !.children[1].size = Len(r.children[1].child)]

\* add_child that leaves the list alone when it holds the location already.
add_child_unless_present(root, location) ==
    LET r == get_children_element(root)
        kids == IF \E i \in 1..Len(r.children[1].child) :
                       r.children[1].child[i] = Child(location)
                THEN r.children[1].child
                ELSE Append(r.children[1].child, Child(location))
    IN  [r EXCEPT !.children[1] = [size |-> Len(kids), child |-> kids]]

\* add_child: a new <child location=...> at the end, and the size attribute.
add_child(root, location) ==
    LET r == get_children_element(root)
        kids == Append(r.children[1].child, Child(location))
    IN  [r EXCEPT !.children[1] = [size |-> Len(kids), child |-> kids]]

\* The loop of remove_child_from_composite_artifacts: `for child in
\* children` walks the list by position while children.remove(child) takes
\* the element at that position out, so the element that moves into the
\* freed position is never visited.
RECURSIVE RemoveLoop(_, _, _)
\* The loop with the element itself compared to the location (`child ==
\* child_location`), which no element equals: nothing is removed.
RemoveLoopComparingElement(kids, i, child_location) == kids

RemoveLoop(kids, i, child_location) ==
    IF i > Len(kids) THEN kids
    ELSE IF kids[i].has /\ kids[i].location = child_location
         THEN RemoveLoop(RemoveAt(kids, i), i + 1, child_location)
         ELSE RemoveLoop(kids, i + 1, child_location)

\* add_child_to_composite_artifacts, between the load and the store.
add_child_to_composite_artifacts(root, child_location, new_timestamp) ==
    update_timestamp(SetChildrenSize(add_child(root, child_location)),
                     new_timestamp)

\* remove_child_from_composite_artifacts, between the load and the store.
remove_child_from_composite_artifacts(root, child_location, new_timestamp) ==
    LET r == get_children_element(root)
        kids == RemoveLoop(r.children[1].child, 1, child_location)
    IN  update_timestamp(SetChildrenSize([r EXCEPT !.children[1].child = kids]),
                         new_timestamp)

\* synch_compostite_artifacts_to_composite_content: the content tree built
\* from the empty one, with a child per child of the artifacts tree (its
\* location None when the child has none) and the artifacts' timestamps.
RECURSIVE AddChildren(_, _, _)
AddChildren(content_root, kids, i) ==
    IF i > Len(kids) THEN content_root
    ELSE AddChildren(add_child(content_root, kids[i].location), kids, i + 1)

RECURSIVE CopyTimestamps(_, _, _)
CopyTimestamps(content_root, stamps, i) ==
    IF i > Len(stamps) THEN content_root
    ELSE CopyTimestamps(update_timestamp(content_root, stamps[i]), stamps, i + 1)

\* The synch without its second loop: the content keeps the empty
\* document's timestamp.
SynchWithoutTimestamp(composite_artifacts_root) ==
    AddChildren(EMPTY_COMPOSITE_CONTENT_XML, ChildElements(composite_artifacts_root), 1)

synch_compostite_artifacts_to_composite_content(composite_artifacts_root) ==
    LET withKids == AddChildren(EMPTY_COMPOSITE_CONTENT_XML,
                                ChildElements(composite_artifacts_root), 1)
        stamps == get_timestamp_property(composite_artifacts_root).properties[1].property
    IN  CopyTimestamps(withKids, stamps, 1)

\* ElementTree.tostring raises TypeError on an attribute whose value is None.
CanSerialize(root) ==
    \A i \in 1..Len(ChildElements(root)) :
        ChildElements(root)[i].has => ChildElements(root)[i].location # None

\* get_composite_artifacts_xml without the 404 case: every ClientError is
\* raised.
GetWithoutBootstrap(status, object) ==
    IF status \in {"404", "error"}
    THEN [raised |-> "ClientError", tree |-> EMPTY_COMPOSITE_ARTIFACTS_XML]
    ELSE IF object.xml
    THEN [raised |-> "none", tree |-> object.root]
    ELSE [raised |-> "ParseError", tree |-> EMPTY_COMPOSITE_ARTIFACTS_XML]

\* get_composite_artifacts_xml with the parse guarded like the download:
\* bytes that do not parse give the empty document too.
GetBootstrappingOnParseError(status, object) ==
    IF status = "error"
    THEN [raised |-> "ClientError", tree |-> EMPTY_COMPOSITE_ARTIFACTS_XML]
    ELSE IF status = "200" /\ object.xml
    THEN [raised |-> "none", tree |-> object.root]
    ELSE [raised |-> "none", tree |-> EMPTY_COMPOSITE_ARTIFACTS_XML]

\* get_composite_artifacts_xml on the answer to the GET: "404", "error" (any
\* other ClientError) or "200" with the object.  The tree parsed, or the
\* exception raised.
get_composite_artifacts_xml(status, object) ==
    IF status = "404"
    THEN [raised |-> "none", tree |-> EMPTY_COMPOSITE_ARTIFACTS_XML]
    ELSE IF status = "error"
    THEN [raised |-> "ClientError", tree |-> EMPTY_COMPOSITE_ARTIFACTS_XML]
    ELSE IF object.xml
    THEN [raised |-> "none", tree |-> object.root]
    ELSE [raised |-> "ParseError", tree |-> EMPTY_COMPOSITE_ARTIFACTS_XML]

\* ---------------------------------------------------------- the retention

\* An optional number (retain_days, retain_minimum, retain_maximum,
\* retain_after, a probe's last_modified): <<>> is Python's None, <<n>> is n.
NoValue == <<>>
Some(n) == <<n>>
IsNone(x) == Len(x) = 0
Optional(S) == {NoValue} \cup {Some(n) : n \in S}

\* (InsertKeyAtEnd is the mapping left unsorted: its items in dict order.)
\* sorted(child_keys.items(), reverse=True, key=lambda x: x[1]): the newest
\* first, keys of the same last_modified in the order of the mapping.  A key
\* is <<location, last_modified>>.
InsertKeyAtEnd(sorted_keys, key) == Append(sorted_keys, key)

InsertKey(sorted_keys, key) ==
    LET k == Cardinality({i \in 1..Len(sorted_keys) : sorted_keys[i][2] >= key[2]})
    IN  SubSeq(sorted_keys, 1, k) \o <<key>> \o SubSeq(sorted_keys, k + 1, Len(sorted_keys))

RECURSIVE SortedNewestFirst(_, _, _)
SortedNewestFirst(child_keys, i, sorted_keys) ==
    IF i > Len(child_keys) THEN sorted_keys
    ELSE SortedNewestFirst(child_keys, i + 1, InsertKey(sorted_keys, child_keys[i]))

\* retain_after: current_datetime - timedelta(days=retain_days), or None.
RetainAfter(current_datetime, retain_days) ==
    IF IsNone(retain_days) THEN NoValue
    ELSE Some(current_datetime - retain_days[1])

\* The floor with its comparison off by one: one key fewer is kept.
UnderMinimumButOne(retain_minimum, retained_count) ==
    ~IsNone(retain_minimum) /\ retained_count + 1 < retain_minimum[1]

\* retain_minimum is not None and retained_count < retain_minimum
UnderMinimum(retain_minimum, retained_count) ==
    ~IsNone(retain_minimum) /\ retained_count < retain_minimum[1]

\* retain_maximum is not None and retain_maximum <= retained_count
AtMaximum(retain_maximum, retained_count) ==
    ~IsNone(retain_maximum) /\ retain_maximum[1] <= retained_count

\* The age test with <=: a key modified at the cutoff is deleted too.
ExpiredAtCutoff(last_modified, retain_after) == last_modified <= retain_after[1]

\* key[1] < retain_after
Expired(last_modified, retain_after) == last_modified < retain_after[1]

\* The loop over sorted_child_keys, from its i-th key on: the keys to delete
\* and the count of those retained.  With retain_after None a key past the
\* floor and under the cap falls through all three branches: it is not
\* deleted and retained_count stays as it is.
RECURSIVE RetentionLoop(_, _, _, _, _, _, _)
RetentionLoop(sorted_child_keys, i, retained_count, delete_keys, retain_minimum, retain_maximum, retain_after) ==
    IF i > Len(sorted_child_keys)
    THEN [retained_count |-> retained_count, delete_keys |-> delete_keys]
    ELSE IF UnderMinimum(retain_minimum, retained_count)
    THEN RetentionLoop(sorted_child_keys, i + 1, retained_count + 1, delete_keys,
                       retain_minimum, retain_maximum, retain_after)
    ELSE IF AtMaximum(retain_maximum, retained_count)
    THEN RetentionLoop(sorted_child_keys, i + 1, retained_count,
                       Append(delete_keys, sorted_child_keys[i]),
                       retain_minimum, retain_maximum, retain_after)
    ELSE IF ~IsNone(retain_after)
    THEN IF Expired(sorted_child_keys[i][2], retain_after)
         THEN RetentionLoop(sorted_child_keys, i + 1, retained_count,
                            Append(delete_keys, sorted_child_keys[i]),
                            retain_minimum, retain_maximum, retain_after)
         ELSE RetentionLoop(sorted_child_keys, i + 1, retained_count + 1, delete_keys,
                            retain_minimum, retain_maximum, retain_after)
    ELSE RetentionLoop(sorted_child_keys, i + 1, retained_count, delete_keys,
                       retain_minimum, retain_maximum, retain_after)

\* delete_keys, from the mapping and the policy.
DeleteKeys(child_keys, current_datetime, retain_days, retain_minimum, retain_maximum) ==
    RetentionLoop(SortedNewestFirst(child_keys, 1, <<>>), 1, 0, <<>>,
                  retain_minimum, retain_maximum,
                  RetainAfter(current_datetime, retain_days)).delete_keys

\* --------------------------------------------------- the snapshots' index

\* A child location that is a URL, http://h/p, cut at its delimiters.
UrlLocation == <<"http", ":", "/", "/", "h", "/", "p">>

\* The position of the first "/" of x, Len(x) + 1 when it has none.
FirstSlash(x) ==
    IF \E i \in 1..Len(x) : x[i] = "/"
    THEN CHOOSE i \in 1..Len(x) : x[i] = "/" /\ \A j \in 1..(i - 1) : x[j] # "/"
    ELSE Len(x) + 1

\* urllib.parse.urlparse: the scheme before a ":", the netloc after "//" up
\* to the next "/", and the path.
urlparse(x) ==
    LET hasScheme == Len(x) >= 2 /\ x[2] = ":"
        rest == IF hasScheme THEN SubSeq(x, 3, Len(x)) ELSE x
        hasNetloc == Len(rest) >= 2 /\ rest[1] = "/" /\ rest[2] = "/"
        after == IF hasNetloc THEN SubSeq(rest, 3, Len(rest)) ELSE rest
    IN  [scheme |-> IF hasScheme THEN x[1] ELSE "",
         netloc |-> IF hasNetloc THEN SubSeq(after, 1, FirstSlash(after) - 1) ELSE <<>>,
         path   |-> IF hasNetloc THEN SubSeq(after, FirstSlash(after), Len(after))
                    ELSE rest]

\* is_location_url
is_location_url(x) ==
    LET result == urlparse(x)
    IN  /\ result.scheme \in {"http", "https"}
        /\ result.netloc # <<>>
        /\ result.path # <<>>

\* The regular expressions given as child_regex: None, a and a.* (a pattern
\* is its characters, with ".*" as one).
Regexes == {None, <<"a">>, <<"a", ".*">>}

\* The characters a pattern starts with, before its ".*" if it ends in one.
Literal(pattern) ==
    IF Len(pattern) >= 1 /\ pattern[Len(pattern)] = ".*"
    THEN SubSeq(pattern, 1, Len(pattern) - 1)
    ELSE pattern

\* pattern.match(ck) is not None: the pattern matches at the start of ck.
match(pattern, ck) == StartsWith(ck, Literal(pattern))

\* pattern.fullmatch(ck) is not None
fullmatch(pattern, ck) ==
    IF Len(pattern) >= 1 /\ pattern[Len(pattern)] = ".*"
    THEN StartsWith(ck, Literal(pattern))
    ELSE ck = pattern

\* The key of a child's marker, under bucket_prefix.
MarkerKey(location) == location \o <<"/", "p2.index">>

\* The locations in the order list_objects_v2 gives their keys: a/p2.index
\* comes before ab/p2.index.
Listing == << <<"a">>, <<"a", "b">> >>

\* S3Utils.get_matching_s3_contents(bucket, prefix, 'p2.index'): the
\* locations, in listing order, whose marker is stored (markers) and has a
\* key that starts with the prefix.
get_matching_s3_contents(markers, prefix) ==
    SelectSeq(Listing, LAMBDA l : l \in markers /\ StartsWith(MarkerKey(l), prefix))

\* The probe of manage_snapshots: last_modified of the last key listed, None
\* when none is.
Probe(markers, last_modified, child_location) ==
    LET found == get_matching_s3_contents(markers, child_location)
    IN  IF found = <<>> THEN NoValue ELSE Some(last_modified[found[Len(found)]])

\* child_keys[child_location] = last_modified
SetKey(child_keys, child_location, last_modified) ==
    IF \E i \in 1..Len(child_keys) : child_keys[i][1] = child_location
    THEN [i \in 1..Len(child_keys) |->
            IF child_keys[i][1] = child_location
            THEN <<child_location, last_modified>> ELSE child_keys[i]]
    ELSE Append(child_keys, <<child_location, last_modified>>)

\* The loop over children_element.getchildren(), a copy of the child list:
\* a child without location or not found by the probe is removed from the
\* tree in memory, a URL is skipped, the others go into child_keys.
RECURSIVE InspectChildren(_, _, _, _, _, _)
InspectChildren(kids, i, kept, child_keys, markers, last_modified) ==
    IF i > Len(kids) THEN [kept |-> kept, child_keys |-> child_keys]
    ELSE IF ~kids[i].has \/ kids[i].location = None
    THEN InspectChildren(kids, i + 1, kept, child_keys, markers, last_modified)
    ELSE IF is_location_url(kids[i].location)
    THEN InspectChildren(kids, i + 1, Append(kept, kids[i]), child_keys,
                         markers, last_modified)
    ELSE IF IsNone(Probe(markers, last_modified, kids[i].location))
    THEN InspectChildren(kids, i + 1, kept, child_keys, markers, last_modified)
    ELSE InspectChildren(kids, i + 1, Append(kept, kids[i]),
                         SetKey(child_keys, kids[i].location,
                                Probe(markers, last_modified, kids[i].location)[1]),
                         markers, last_modified)

\* The loop over delete_keys with its call of
\* remove_repository_from_composite made: the objects of every key go.
DeleteChildrenCalled(stored, delete_keys) ==
    [l \in DOMAIN stored |->
        IF /\ stored[l] # "none"
           /\ \E i \in 1..Len(delete_keys) : StartsWith(l \o <<"/">>, delete_keys[i][1])
        THEN "deleted" ELSE stored[l]]

\* The loop over delete_keys: it prints each key; the call that would remove
\* the child is commented out.
DeleteChildren(stored, delete_keys) == stored

\* ------------------------------------------------------------------ state

VARIABLES
    artifacts,  \* the object at prefix/compositeArtifacts.xml
    content,    \* the object at prefix/compositeContent.xml
    objects,    \* per location, what is stored under prefix/location
    now,        \* what the next reading of the clock gives, in milliseconds
    frame,      \* per caller, the operation it is in and its local variables
    lastAdd,    \* the add that was the last operation to return, if it succeeded
    snapshot,   \* the run of manage_snapshots: its arguments and local variables
    job         \* the invocation of lambda_handler: its event and what it reported

vars == <<artifacts, content, objects, now, frame, lastAdd, snapshot, job>>

\* A caller that is in no operation.
IdleFrame ==
    [pc        |-> "idle",
     op        |-> "none",
     child     |-> None,
     timestamp |-> 0,
     status    |-> "none",
     parsed    |-> EMPTY_COMPOSITE_ARTIFACTS_XML,
     tree      |-> EMPTY_COMPOSITE_ARTIFACTS_XML,
     raised    |-> "none",
     failed    |-> "none",
     result    |-> "none",
     uploaded  |-> "none",
     removed   |-> "none"]

NoAdd == [child |-> None, before |-> {}]

\* lambda_handler before it is invoked: no event, no call of CodePipeline,
\* nothing returned.
IdleJob ==
    [pc         |-> "idle",
     event      |-> "none",
     api        |-> "none",
     summary    |-> "none",
     statusCode |-> 0,
     raised     |-> "none"]

\* manage_snapshots before it is called.
IdleSnapshot ==
    [pc               |-> "idle",
     child_regex      |-> None,
     retain_days      |-> NoValue,
     retain_minimum   |-> NoValue,
     retain_maximum   |-> NoValue,
     current_datetime |-> 0,
     markers          |-> {},
     parsed           |-> EMPTY_COMPOSITE_ARTIFACTS_XML,
     tree             |-> EMPTY_COMPOSITE_ARTIFACTS_XML,
     child_keys       |-> <<>>,
     delete_keys      |-> <<>>,
     raised           |-> "none",
     result           |-> "none"]

Range(s) == {s[i] : i \in 1..Len(s)}

SeqsUpTo(S, n) == UNION {[1..k -> S] : k \in 0..n}

Document(props, kids) ==
    [type       |-> "CompositeArtifactRepository",
     properties |-> props,
     children   |-> << [size |-> Len(kids), child |-> kids] >>]

\* The documents the bucket may hold at the start: every child list of up to
\* MaxInitial children, with or without a location, under the usual
\* properties and stamped before the clock's first reading; and, written by other hands, one without <properties>, one
\* without a p2.timestamp, one with two, one with a stale children size and
\* one without <children>.
InitialDocuments ==
    {Document(<< [size |-> 1, property |-> <<0>>] >>, kids) :
        kids \in SeqsUpTo({Child(l) : l \in Locations} \cup {MalformedChild},
                          MaxInitial)}
    \cup {Document(<<>>, <<Child(<<"a">>)>>),
          Document(<< [size |-> 0, property |-> <<>>] >>, <<Child(<<"a">>)>>),
          Document(<< [size |-> 2, property |-> <<0, 0>>] >>, <<Child(<<"a", "b">>)>>),
          [Document(<< [size |-> 1, property |-> <<0>>] >>, <<Child(<<"a", "b">>)>>)
               EXCEPT !.children[1].size = 0],
          [Document(<< [size |-> 1, property |-> <<0>>] >>, <<>>)
               EXCEPT !.children = <<>>]}

Init ==
    /\ artifacts \in {NoSuchKey, NotXml} \cup {Stored(d) : d \in InitialDocuments}
    /\ content =
         IF IsDocument(artifacts)
            /\ CanSerialize(synch_compostite_artifacts_to_composite_content(artifacts.root))
         THEN Stored(synch_compostite_artifacts_to_composite_content(artifacts.root))
         ELSE NoSuchKey
    /\ objects =
         [l \in Locations |->
            IF IsDocument(artifacts) /\ l \in Range(get_child_locations(artifacts.root))
            THEN "full" ELSE "none"]
    /\ now = 1
    /\ frame = [p \in Procs |-> IdleFrame]
    /\ lastAdd = NoAdd
    /\ snapshot = IdleSnapshot
    /\ job = IdleJob

\* ------------------------------------------------------------- operations

\* int(round(time.time() * 1000.0)): every reading is later than the one
\* before, up to the last the model follows.
Tick(t) == IF t < MaxClock THEN t + 1 ELSE t

\* The number of children the index holds.
IndexLength ==
    IF IsDocument(artifacts) THEN Len(ChildElements(artifacts.root)) ELSE 0

\* A caller enters add_repository_to_composite(repository, bucket, prefix,
\* child) or remove_repository_from_composite(bucket, prefix, child); the
\* latter reads the clock first.
Start(p) ==
    /\ frame[p].pc = "idle"
    /\ \E child \in Locations :
         \/ /\ IndexLength < MaxChildren
            /\ frame' = [frame EXCEPT ![p] =
                   [IdleFrame EXCEPT !.pc = "upload", !.op = "add", !.child = child]]
            /\ now' = now
         \/ /\ frame' = [frame EXCEPT ![p] =
                   [IdleFrame EXCEPT !.pc = "load", !.op = "remove",
                                     !.child = child, !.timestamp = now]]
            /\ now' = Tick(now)
    /\ UNCHANGED <<artifacts, content, objects, lastAdd, snapshot, job>>

\* S3Utils.upload_repository, whose result add_repository_to_composite does
\* not look at, and the reading of the clock after it.  An upload that fails
\* leaves what it had stored before the failing file.
Upload(p) ==
    /\ frame[p].pc = "upload"
    /\ now' = Tick(now)
    /\ \/ /\ objects' = [objects EXCEPT ![frame[p].child] = "full"]
          /\ frame' = [frame EXCEPT ![p].pc = "load", ![p].timestamp = now,
                                    ![p].uploaded = "True"]
       \/ /\ \/ objects' = objects
             \/ /\ objects[frame[p].child] # "full"
                /\ objects' = [objects EXCEPT ![frame[p].child] = "partial"]
          /\ frame' = [frame EXCEPT ![p].pc = "load", ![p].timestamp = now,
                                    ![p].uploaded = "False"]
    /\ UNCHANGED <<artifacts, content, lastAdd, snapshot, job>>

\* The tree an operation stores: the parsed one with its change made.
Mutated(op, root, child, timestamp) ==
    IF op = "add"
    THEN add_child_to_composite_artifacts(root, child, timestamp)
    ELSE remove_child_from_composite_artifacts(root, child, timestamp)

\* What the operation does with the answer to its GET of the artifacts.
Loaded(f, status) ==
    LET got == get_composite_artifacts_xml(status, artifacts)
    IN  IF got.raised = "none"
        THEN [f EXCEPT !.pc = "store", !.status = status, !.parsed = got.tree,
                       !.tree = Mutated(f.op, got.tree, f.child, f.timestamp)]
        ELSE [f EXCEPT !.pc = "done", !.status = status, !.raised = got.raised,
                       !.failed = "load",
                       !.result = IF got.raised = "ClientError"
                                  THEN "False" ELSE "raise"]

\* get_composite_artifacts_xml and the change made to the tree in memory.
Load(p) ==
    /\ frame[p].pc = "load"
    /\ \/ frame' = [frame EXCEPT ![p] = Loaded(frame[p], "error")]
       \/ /\ ~artifacts.found
          /\ frame' = [frame EXCEPT ![p] = Loaded(frame[p], "404")]
       \/ /\ artifacts.found
          /\ frame' = [frame EXCEPT ![p] = Loaded(frame[p], "200")]
    /\ UNCHANGED <<artifacts, content, objects, now, lastAdd, snapshot, job>>

\* StoreFailed with the except clause around the index update alone: the
\* error is logged and the operation goes on to delete the objects.
StoreFailedThenDelete(f) ==
    [f EXCEPT !.pc = "delete", !.raised = "ClientError", !.failed = "store"]

\* The frame after store_composite_artifacts_xml raised ClientError.
StoreFailed(f) ==
    [f EXCEPT !.pc = "done", !.raised = "ClientError", !.failed = "store",
              !.result = "False"]

\* store_composite_artifacts_xml as a conditional write: the change is made
\* again to the document found in the bucket at the time of the store.
StoreArtifactsOnStoredDocument(p) ==
    /\ frame[p].pc = "store"
    /\ \/ /\ artifacts' =
                Stored(Mutated(frame[p].op,
                               IF IsDocument(artifacts) THEN artifacts.root
                               ELSE frame[p].parsed,
                               frame[p].child, frame[p].timestamp))
          /\ frame' = [frame EXCEPT ![p].pc = "synch"]
       \/ /\ artifacts' = artifacts
          /\ frame' = [frame EXCEPT ![p] = StoreFailed(frame[p])]
    /\ UNCHANGED <<content, objects, now, lastAdd, snapshot, job>>

\* store_composite_artifacts_xml.
StoreArtifacts(p) ==
    /\ frame[p].pc = "store"
    /\ \/ /\ artifacts' = Stored(frame[p].tree)
          /\ frame' = [frame EXCEPT ![p].pc = "synch"]
       \/ /\ artifacts' = artifacts
          /\ frame' = [frame EXCEPT ![p] = StoreFailed(frame[p])]
    /\ UNCHANGED <<content, objects, now, lastAdd, snapshot, job>>

\* Where an operation goes once both documents are stored.
AfterSynch(f) ==
    IF f.op = "remove" THEN [f EXCEPT !.pc = "delete"]
    ELSE [f EXCEPT !.pc = "done", !.result = "True"]

\* synch_compostite_artifacts_to_composite_content and
\* store_composite_content_xml.
Synch(p) ==
    LET root == synch_compostite_artifacts_to_composite_content(frame[p].tree)
    IN  /\ frame[p].pc = "synch"
        /\ \/ /\ ~CanSerialize(root)
              /\ content' = content
              /\ frame' = [frame EXCEPT ![p].pc = "done", ![p].raised = "TypeError",
                                        ![p].failed = "synch", ![p].result = "raise"]
           \/ /\ CanSerialize(root)
              /\ content' = Stored(root)
              /\ frame' = [frame EXCEPT ![p] = AfterSynch(frame[p])]
           \/ /\ CanSerialize(root)
              /\ content' = content
              /\ frame' = [frame EXCEPT ![p].pc = "done", ![p].raised = "ClientError",
                                        ![p].failed = "synch", ![p].result = "False"]
        /\ UNCHANGED <<artifacts, objects, now, lastAdd, snapshot, job>>

\* bucket.objects.filter(Prefix=prefix/child).delete(): every key that
\* starts with prefix/child goes, those of another child whose location
\* starts with `child` included.
remove_repository(stored, child) ==
    [l \in Locations |->
        IF StartsWith(l \o <<"/">>, child) /\ stored[l] # "none"
        THEN "deleted" ELSE stored[l]]

\* S3Utils.remove_repository, whose result remove_repository_from_composite
\* does not look at.
Delete(p) ==
    /\ frame[p].pc = "delete"
    /\ \/ /\ objects' = remove_repository(objects, frame[p].child)
          /\ frame' = [frame EXCEPT ![p].pc = "done", ![p].removed = "True",
                                    ![p].result = "True"]
       \/ /\ objects' = objects
          /\ frame' = [frame EXCEPT ![p].pc = "done", ![p].removed = "False",
                                    ![p].result = "True"]
    /\ UNCHANGED <<artifacts, content, now, lastAdd, snapshot, job>>

\* The operation returns (or its exception leaves it).
Finish(p) ==
    /\ frame[p].pc = "done"
    /\ frame' = [frame EXCEPT ![p] = IdleFrame]
    /\ lastAdd' =
         IF frame[p].op = "add" /\ frame[p].result = "True"
         THEN [child  |-> frame[p].child,
               before |-> Range(get_child_locations(frame[p].parsed))]
         ELSE NoAdd
    /\ UNCHANGED <<artifacts, content, objects, now, snapshot, job>>

Step(p) ==
    \/ Start(p)
    \/ Upload(p)
    \/ Load(p)
    \/ StoreArtifacts(p)
    \/ Synch(p)
    \/ Delete(p)
    \/ Finish(p)

\* One caller, one operation after the other.
Next == \E p \in {1} : Step(p)

Spec == Init /\ [][Next]_vars

\* One operation of a caller, up to its return.
Operation(p) ==
    \/ Start(p)
    \/ Upload(p)
    \/ Load(p)
    \/ StoreArtifacts(p)
    \/ Synch(p)
    \/ Delete(p)

\* Two callers on the same prefix, one operation each, their requests to the
\* bucket in any order.
NextTwo == \E p \in Procs : Operation(p)

SpecTwo == Init /\ [][NextTwo]_vars

\* ------------------------------------------------- the retention, alone

\* The i-th location of a mapping: "s", "ss", ...
SnapshotLocation(i) == [j \in 1..i |-> "s"]

\* The mappings child_keys of up to MaxSnapshots locations, in the order of
\* the dict, each location modified on a day of 0..MaxDay.
ChildKeys ==
    UNION {{[i \in 1..n |-> <<SnapshotLocation(i), days[i]>>] :
               days \in [1..n -> 0..MaxDay]} : n \in 0..MaxSnapshots}

\* manage_snapshots at its sort, with the mapping and the policy it is to
\* apply.
AtSort(child_keys, current_datetime, retain_days, retain_minimum, retain_maximum) ==
    [IdleSnapshot EXCEPT !.pc = "keys",
                         !.child_keys = child_keys,
                         !.current_datetime = current_datetime,
                         !.retain_days = retain_days,
                         !.retain_minimum = retain_minimum,
                         !.retain_maximum = retain_maximum]

\* Five locations modified on days 1, 10, 20, 29 and 40, evaluated on day 40
\* with retain_days 30, retain_minimum 1 and retain_maximum 4.
RetentionExample ==
    AtSort(<< <<SnapshotLocation(1), 1>>, <<SnapshotLocation(2), 10>>,
              <<SnapshotLocation(3), 20>>, <<SnapshotLocation(4), 29>>,
              <<SnapshotLocation(5), 40>> >>,
           40, Some(30), Some(1), Some(4))

\* Every mapping under every policy, each of the three numbers set or None,
\* on day MaxDay; and the example.
InitRetention ==
    /\ artifacts = NoSuchKey
    /\ content = NoSuchKey
    /\ objects = [l \in Locations |-> "none"]
    /\ now = 1
    /\ frame = [p \in Procs |-> IdleFrame]
    /\ lastAdd = NoAdd
    /\ snapshot \in
         {AtSort(child_keys, MaxDay, retain_days, retain_minimum, retain_maximum) :
             child_keys \in ChildKeys,
             retain_days \in Optional(0..MaxDay),
             retain_minimum \in Optional(0..MaxRetain),
             retain_maximum \in Optional(0..MaxRetain)}
         \cup {RetentionExample}
    /\ job = IdleJob

\* The sort and the loop of manage_snapshots.
Retain ==
    /\ snapshot.pc = "keys"
    /\ snapshot' =
         [snapshot EXCEPT
            !.pc = "done",
            !.delete_keys = DeleteKeys(snapshot.child_keys, snapshot.current_datetime,
                                       snapshot.retain_days, snapshot.retain_minimum,
                                       snapshot.retain_maximum),
            !.result = "True"]
    /\ UNCHANGED <<artifacts, content, objects, now, frame, lastAdd, job>>

NextRetention == Retain

SpecRetention == InitRetention /\ [][NextRetention]_vars

\* ------------------------------------------- manage_snapshots on a bucket

\* The documents manage_snapshots may find: every child list of up to
\* MaxIndexed children, each a location, the URL or without location.
SnapshotDocuments ==
    {Document(<< [size |-> 1, property |-> <<0>>] >>, kids) :
        kids \in SeqsUpTo({Child(l) : l \in Locations \cup {UrlLocation}}
                              \cup {MalformedChild},
                          MaxIndexed)}

\* Any index over any objects: a child's objects may be there in full, in
\* part (an upload that failed), not at all, or deleted.
InitSnapshots ==
    /\ artifacts \in {NoSuchKey, NotXml} \cup {Stored(d) : d \in SnapshotDocuments}
    /\ content = NoSuchKey
    /\ objects \in [Locations -> {"full", "partial", "none", "deleted"}]
    /\ now = 1
    /\ frame = [p \in Procs |-> IdleFrame]
    /\ lastAdd = NoAdd
    /\ snapshot = IdleSnapshot
    /\ job = IdleJob

\* manage_snapshots(bucket_name, bucket_prefix, retain_days, retain_minimum,
\* retain_maximum, child_regex) up to its loop over delete_keys, given the
\* answer to the GET of the artifacts, whether Element has getchildren (it
\* has up to Python 3.8), the markers in the bucket and their LastModified.
manage_snapshots(status, object, getchildren, markers, last_modified, current_datetime, retain_days, retain_minimum, retain_maximum, child_regex) ==
    LET got == get_composite_artifacts_xml(status, object)
        root == get_children_element(got.tree)
        inspected == InspectChildren(ChildElements(root), 1, <<>>, <<>>,
                                     markers, last_modified)
        child_keys == IF child_regex = None THEN inspected.child_keys
                      ELSE SelectSeq(inspected.child_keys,
                                     LAMBDA ck : fullmatch(child_regex, ck[1]))
        called == [IdleSnapshot EXCEPT !.pc = "done",
                                       !.child_regex = child_regex,
                                       !.retain_days = retain_days,
                                       !.retain_minimum = retain_minimum,
                                       !.retain_maximum = retain_maximum,
                                       !.markers = markers]
    IN  IF got.raised # "none"
        THEN [called EXCEPT !.raised = got.raised,
                            !.result = IF got.raised = "ClientError"
                                       THEN "False" ELSE "raise"]
        ELSE IF ~getchildren
        THEN [called EXCEPT !.parsed = got.tree, !.tree = root,
                            !.raised = "AttributeError", !.result = "raise"]
        ELSE [called EXCEPT
                !.parsed = got.tree,
                !.tree = [root EXCEPT !.children[1].child = inspected.kept],
                !.child_keys = child_keys,
                !.current_datetime = current_datetime,
                !.delete_keys = DeleteKeys(child_keys, current_datetime, retain_days,
                                           retain_minimum, retain_maximum),
                !.result = "True"]

\* One run of manage_snapshots on day MaxDay, each number of the policy set
\* (retain_days 0, retain_minimum 1, retain_maximum 1) or None, the markers
\* modified that day or the day before.  The marker of
\* a child uploaded in part may be there or not.
ManageSnapshots ==
    /\ snapshot.pc = "idle"
    /\ \E status \in {"error"} \cup (IF artifacts.found THEN {"200"} ELSE {"404"}),
          getchildren \in BOOLEAN,
          marked \in SUBSET {l \in Locations : objects[l] = "partial"},
          last_modified \in [Locations -> {MaxDay - 1, MaxDay}],
          retain_days \in Optional({0}),
          retain_minimum \in Optional({1}),
          retain_maximum \in Optional({1}),
          child_regex \in Regexes :
            snapshot' =
                manage_snapshots(status, artifacts, getchildren,
                                 {l \in Locations : objects[l] = "full"} \cup marked,
                                 last_modified, MaxDay, retain_days, retain_minimum,
                                 retain_maximum, child_regex)
    /\ objects' = DeleteChildren(objects, snapshot'.delete_keys)
    /\ UNCHANGED <<artifacts, content, now, frame, lastAdd, job>>

NextSnapshots == ManageSnapshots

SpecSnapshots == InitSnapshots /\ [][NextSnapshots]_vars

\* ------------------------------------- an operation, then manage_snapshots

\* One add or remove by caller 1 and, once it has returned, one run of
\* manage_snapshots on what it left.
NextRepair ==
    \/ Operation(1)
    \/ frame[1].pc = "done" /\ ManageSnapshots

SpecRepair == Init /\ [][NextRepair]_vars

\* ------------------------------------------------------ the publish handler

\* The events lambda_handler is invoked with: a dict with the job and the
\* four parameters ("publish"), one with the job and a parameter missing
\* ("missing"), one without "CodePipeline.job" ("nojob"), a value that is
\* not a dict, a JSON list or string ("notdict"), and a mapping with the job
\* that is not a dict either ("mapping").
Events == {"publish", "missing", "nojob", "notdict", "mapping"}

\* put_job_success: put_job_success_result with summary "Success".
put_job_success(j) ==
    [j EXCEPT !.api = "put_job_success_result", !.summary = "Success"]

\* put_job_failure: put_job_success_result again, its summary starting with
\* "Failure: ".
put_job_failure(j) ==
    [j EXCEPT !.api = "put_job_success_result", !.summary = "Failure"]

\* The bucket as in Init, and an event.
InitHandler ==
    /\ artifacts \in {NoSuchKey, NotXml} \cup {Stored(d) : d \in InitialDocuments}
    /\ content =
         IF IsDocument(artifacts)
            /\ CanSerialize(synch_compostite_artifacts_to_composite_content(artifacts.root))
         THEN Stored(synch_compostite_artifacts_to_composite_content(artifacts.root))
         ELSE NoSuchKey
    /\ objects =
         [l \in Locations |->
            IF IsDocument(artifacts) /\ l \in Range(get_child_locations(artifacts.root))
            THEN "full" ELSE "none"]
    /\ now = 1
    /\ frame = [p \in Procs |-> IdleFrame]
    /\ lastAdd = NoAdd
    /\ snapshot = IdleSnapshot
    /\ job \in {[IdleJob EXCEPT !.pc = "invoked", !.event = e] : e \in Events}

\* lambda_handler up to its call of add_repository_to_composite.
\* event["CodePipeline.job"]["id"] is read before the isinstance test: it
\* raises TypeError on a list or a string and KeyError on a dict without the
\* job.  A missing parameter is a KeyError inside the try: the handler calls
\* put_job_failure_result and returns None.  A mapping that is no dict gets
\* put_job_failure and a 422 response.
Invoke ==
    /\ job.pc = "invoked"
    /\ job' =
         IF job.event = "notdict"
         THEN [job EXCEPT !.pc = "done", !.raised = "TypeError"]
         ELSE IF job.event = "nojob"
         THEN [job EXCEPT !.pc = "done", !.raised = "KeyError"]
         ELSE IF job.event = "missing"
         THEN [job EXCEPT !.pc = "done", !.api = "put_job_failure_result",
                          !.summary = "ConfigurationError"]
         ELSE IF job.event = "mapping"
         THEN [put_job_failure(job) EXCEPT !.pc = "done", !.statusCode = 422]
         ELSE [job EXCEPT !.pc = "publishing"]
    /\ UNCHANGED <<artifacts, content, objects, now, frame, lastAdd, snapshot>>

\* The handler's call of add_repository_to_composite, request by request.
Publish ==
    /\ job.pc = "publishing"
    /\ \/ Start(1) /\ frame'[1].op = "add"
       \/ Upload(1)
       \/ Load(1)
       \/ StoreArtifacts(1)
       \/ Synch(1)

\* lambda_handler after the call: whatever add_repository_to_composite
\* returned, put_job_success and a 200 response; on an exception,
\* put_job_failure and a 417 response.
Report ==
    /\ job.pc = "publishing"
    /\ frame[1].pc = "done"
    /\ job' =
         IF frame[1].result = "raise"
         THEN [put_job_failure(job) EXCEPT !.pc = "done", !.statusCode = 417]
         ELSE [put_job_success(job) EXCEPT !.pc = "done", !.statusCode = 200]
    /\ UNCHANGED <<artifacts, content, objects, now, frame, lastAdd, snapshot>>

NextHandler == Invoke \/ Publish \/ Report

SpecHandler == InitHandler /\ [][NextHandler]_vars

\* ------------------------------------------------------------- properties

\* The caller's operation has stored its artifacts document.
StoredArtifacts(p) ==
    \/ frame[p].pc \in {"synch", "delete"}
    \/ frame[p].pc = "done" /\ frame[p].failed \notin {"load", "store"}

\* add_child_to_composite_artifacts or remove_child_from_composite_artifacts
\* has returned: both documents are stored.
Completed(p) ==
    \/ frame[p].pc = "delete"
    \/ frame[p].pc = "done" /\ frame[p].result = "True"

\* The values of a document's p2.timestamp properties.
Timestamps(root) == Range(get_timestamp_property(root).properties[1].property)

\* The locations the index holds.
Indexed ==
    IF IsDocument(artifacts) THEN Range(get_child_locations(artifacts.root)) ELSE {}

\* C1. Size invariant: once an add or a remove has stored the artifacts
\* document, the stored document's children size attribute is the number of
\* child elements it holds.
C1_SizeInvariant ==
    \A p \in Procs :
        StoredArtifacts(p) =>
            /\ IsDocument(artifacts)
            /\ Len(artifacts.root.children) >= 1
            /\ artifacts.root.children[1].size = Len(artifacts.root.children[1].child)

\* A remove that took two of three children out has stored a document of
\* size 1.
C1_Witness ==
    \E p \in Procs :
        /\ StoredArtifacts(p)
        /\ frame[p].op = "remove"
        /\ Len(ChildElements(frame[p].parsed)) = 3
        /\ artifacts.root.children[1].size = 1

\* C2. Metadata derivation: when an add or a remove has completed, the
\* stored content document has the child locations of the stored artifacts
\* document, in the same order, and its timestamp value.
C2_MetadataDerivation ==
    \A p \in Procs :
        Completed(p) =>
            /\ IsDocument(artifacts) /\ IsDocument(content)
            /\ Len(ChildElements(content.root)) = Len(ChildElements(artifacts.root))
            /\ get_child_locations(content.root) = get_child_locations(artifacts.root)
            /\ Timestamps(content.root) = Timestamps(artifacts.root)
            /\ Cardinality(Timestamps(content.root)) = 1

\* An operation stamped after the clock's first reading has completed on an
\* index of two children.
C2_Witness ==
    \E p \in Procs :
        /\ Completed(p)
        /\ frame[p].timestamp > 1
        /\ Timestamps(content.root) = {frame[p].timestamp}
        /\ Len(get_child_locations(content.root)) = 2

\* C3. After a remove of x has completed, the stored artifacts document
\* holds no child whose location is x.
C3_RemovedIsGone ==
    \A p \in Procs :
        (Completed(p) /\ frame[p].op = "remove") => frame[p].child \notin Indexed

\* C4. A child without a location does not survive a load, change and store:
\* the artifacts document an add or a remove has stored holds none.
C4_MalformedPurged ==
    \A p \in Procs :
        StoredArtifacts(p) =>
            \A i \in 1..Len(ChildElements(artifacts.root)) :
                ChildElements(artifacts.root)[i].has

\* C5, as stated. An add of x and then a remove of x, both completed, leave
\* the set of locations the index held before the add.
C5_RoundTripAny ==
    \A p \in Procs :
        (/\ Completed(p)
         /\ frame[p].op = "remove"
         /\ lastAdd # NoAdd
         /\ lastAdd.child = frame[p].child)
        => Indexed = lastAdd.before

\* C5, amended. The same, for an x the index did not hold before the add.
C5_RoundTripFresh ==
    \A p \in Procs :
        (/\ Completed(p)
         /\ frame[p].op = "remove"
         /\ lastAdd # NoAdd
         /\ lastAdd.child = frame[p].child
         /\ frame[p].child \notin lastAdd.before)
        => Indexed = lastAdd.before

\* An add of x to an index that held another location, then a remove of x,
\* both completed.
C5_Witness ==
    \E p \in Procs :
        /\ Completed(p)
        /\ frame[p].op = "remove"
        /\ lastAdd # NoAdd
        /\ lastAdd.child = frame[p].child
        /\ frame[p].child \notin lastAdd.before
        /\ lastAdd.before # {}

\* C6. When an add of x has completed, the stored child list is the list the
\* add loaded followed by one new child x: nothing before it is reordered,
\* replaced or removed, whether or not x was there already.
C6_AddAppends ==
    \A p \in Procs :
        (Completed(p) /\ frame[p].op = "add") =>
            ChildElements(artifacts.root) =
                Append(ChildElements(frame[p].parsed), Child(frame[p].child))

\* An add of a location the index held already has completed.
C6_Witness ==
    \E p \in Procs :
        /\ Completed(p)
        /\ frame[p].op = "add"
        /\ frame[p].child \in Range(get_child_locations(frame[p].parsed))
        /\ Len(ChildElements(artifacts.root)) = 3

\* C7. A load answered 404 does not fail, gives the empty document
\* (timestamp 0000000000000, no children, size 0) and writes nothing: the
\* artifacts object is still missing after it.
C7_BootstrapOnNotFound ==
    [][\A p \in Procs :
         (frame[p].pc = "load" /\ frame'[p].status = "404") =>
            /\ frame'[p].pc = "store"
            /\ frame'[p].raised = "none"
            /\ frame'[p].parsed = EMPTY_COMPOSITE_ARTIFACTS_XML
            /\ frame'[p].parsed.properties = << [size |-> 1, property |-> <<0>>] >>
            /\ frame'[p].parsed.children = << [size |-> 0, child |-> <<>>] >>
            /\ artifacts' = artifacts /\ ~artifacts'.found
            /\ content' = content]_vars

\* A second operation has loaded from a bucket that still holds no artifacts
\* document.
C7_Witness ==
    \E p \in Procs :
        /\ frame[p].pc = "store"
        /\ frame[p].status = "404"
        /\ frame[p].timestamp > 1
        /\ ~artifacts.found
        /\ frame[p].parsed = EMPTY_COMPOSITE_ARTIFACTS_XML

\* C8. An operation that fails in its load or in its store of the artifacts
\* document changes neither stored document, up to and in the failing step,
\* and does not return True; and a load of bytes that do not parse always
\* fails so.
C8_AbortWithoutPersistence ==
    [][\A p \in Procs :
         /\ (frame[p].pc \in {"idle", "upload", "load"} /\ frame'[p] # frame[p])
                => (artifacts' = artifacts /\ content' = content)
         /\ (frame[p].pc \in {"load", "store"} /\ frame'[p].pc = "done")
                => /\ artifacts' = artifacts /\ content' = content
                   /\ frame'[p].failed \in {"load", "store"}
                   /\ frame'[p].result \in {"False", "raise"}
         /\ (frame[p].pc = "load" /\ frame'[p].status = "200" /\ ~artifacts.xml)
                => /\ frame'[p].pc = "done"
                   /\ frame'[p].raised = "ParseError"
                   /\ artifacts' = NotXml]_vars

\* A load of bytes that do not parse has failed, and the bytes are still
\* there.
C8_Witness ==
    \E p \in Procs :
        /\ frame[p].pc = "done"
        /\ frame[p].raised = "ParseError"
        /\ frame[p].result = "raise"
        /\ artifacts = NotXml
        /\ content = NoSuchKey

\* C9. A remove whose store of the artifacts document or of the content
\* document failed has not called remove_repository.
C9_NoDeleteAfterFailedPersist ==
    \A p \in Procs :
        (frame[p].op = "remove" /\ frame[p].failed \in {"store", "synch"}) =>
            /\ frame[p].pc = "done"
            /\ frame[p].removed = "none"
            /\ frame[p].result # "True"

\* A remove has failed in its store of the content document, and the
\* child's objects are still there.
C9_Witness ==
    \E p \in Procs :
        /\ frame[p].op = "remove"
        /\ frame[p].failed = "synch"
        /\ frame[p].raised = "ClientError"
        /\ objects[frame[p].child] = "full"

\* C10. The index never holds a location whose objects
\* remove_repository_from_composite has deleted.
C10_NoDeletedChildIndexed ==
    \A l \in Locations : objects[l] = "deleted" => l \notin Indexed

\* C11. Lost update: the store is an overwrite without a version check, so
\* once callers have stored, the artifacts document in the bucket is exactly
\* the tree of one of them (the last to store), whatever the others stored;
\* two adds that both return True can leave only one of the two children
\* in the index.
C11_LastSaveWins ==
    LET stored == {p \in Procs : StoredArtifacts(p)}
    IN  stored # {} => \E p \in stored : artifacts = Stored(frame[p].tree)

\* Two adds of different locations have both returned True and the index
\* holds only the second caller's child.
C11_Witness ==
    /\ \A p \in Procs :
           /\ frame[p].op = "add"
           /\ frame[p].pc = "done"
           /\ frame[p].result = "True"
    /\ frame[1].child # frame[2].child
    /\ frame[1].child \notin Indexed
    /\ frame[2].child \in Indexed

\* The keys manage_snapshots retains: those of the mapping it does not delete.
Retained == {k \in Range(snapshot.child_keys) : k \notin Range(snapshot.delete_keys)}

\* C12. The keys in delete_keys are those a single pass over the keys sorted
\* newest first classifies Delete, the pass being: retain and count while the
\* count is under minRetain; else delete if maxRetain is set and the count
\* has reached it; else delete if maxAgeDays is set and the key was modified
\* before now - maxAgeDays; else retain and count.
C12_RetentionAsSpecified ==
    LET keys == SortedNewestFirst(snapshot.child_keys, 1, <<>>)
        minRetain == snapshot.retain_minimum
        maxRetain == snapshot.retain_maximum
        maxAgeDays == snapshot.retain_days
        RECURSIVE Pass(_, _, _)
        Pass(i, retainedCount, deleted) ==
            IF i > Len(keys) THEN deleted
            ELSE IF retainedCount < minRetain[1]
            THEN Pass(i + 1, retainedCount + 1, deleted)
            ELSE IF ~IsNone(maxRetain) /\ retainedCount >= maxRetain[1]
            THEN Pass(i + 1, retainedCount, deleted \cup {keys[i]})
            ELSE IF /\ ~IsNone(maxAgeDays)
                    /\ keys[i][2] < snapshot.current_datetime - maxAgeDays[1]
            THEN Pass(i + 1, retainedCount, deleted \cup {keys[i]})
            ELSE Pass(i + 1, retainedCount + 1, deleted)
    IN  (snapshot.pc = "done" /\ ~IsNone(minRetain)) =>
            Range(snapshot.delete_keys) = Pass(1, 0, {})

\* C13. Retention floor: whatever retain_maximum and the ages, a deleted key
\* has at least retain_minimum retained keys modified no earlier than it, and
\* min(retain_minimum, number of keys) keys are retained.
C13_FloorWins ==
    (snapshot.pc = "done" /\ ~IsNone(snapshot.retain_minimum)) =>
        /\ \A k \in Range(snapshot.delete_keys) :
               Cardinality({r \in Retained : r[2] >= k[2]}) >= snapshot.retain_minimum[1]
        /\ \/ Cardinality(Retained) >= snapshot.retain_minimum[1]
           \/ snapshot.delete_keys = <<>>

\* retain_minimum 3 against retain_maximum 2 and retain_days 0, on four keys
\* all modified before today: three are retained, the oldest is deleted.
C13_Witness ==
    /\ snapshot.pc = "done"
    /\ snapshot.retain_minimum = Some(3)
    /\ snapshot.retain_maximum = Some(2)
    /\ snapshot.retain_days = Some(0)
    /\ Len(snapshot.child_keys) = 4
    /\ \A k \in Range(snapshot.child_keys) : k[2] < snapshot.current_datetime
    /\ Cardinality(Retained) = 3
    /\ Len(snapshot.delete_keys) = 1

\* C14. Retention ceiling: with retain_maximum set and not under
\* retain_minimum, no more than retain_maximum keys are retained, whether or
\* not retain_days is set.
C14_CeilingHolds ==
    (/\ snapshot.pc = "done"
     /\ ~IsNone(snapshot.retain_maximum)
     /\ ~IsNone(snapshot.retain_minimum)
     /\ snapshot.retain_maximum[1] >= snapshot.retain_minimum[1])
    => Cardinality(Retained) <= snapshot.retain_maximum[1]

\* C15. The age test is strict.  A deleted key either came when the retained
\* ones had reached retain_maximum or was modified strictly before
\* current_datetime - retain_days; a key modified exactly then, met under the
\* cap, is retained; and the example deletes the key of day 1 only.
C15_StrictAgeBoundary ==
    LET keys == SortedNewestFirst(snapshot.child_keys, 1, <<>>)
        RetainedBefore(i) == Cardinality({j \in 1..(i - 1) : keys[j] \in Retained})
        capped(i) == /\ ~IsNone(snapshot.retain_maximum)
                     /\ RetainedBefore(i) >= snapshot.retain_maximum[1]
        cutoff == snapshot.current_datetime - snapshot.retain_days[1]
    IN  snapshot.pc = "done" =>
          /\ \A i \in 1..Len(keys) :
                /\ keys[i] \notin Retained =>
                      \/ capped(i)
                      \/ ~IsNone(snapshot.retain_days) /\ keys[i][2] < cutoff
                /\ (/\ ~IsNone(snapshot.retain_days)
                    /\ keys[i][2] = cutoff
                    /\ ~capped(i)) => keys[i] \in Retained
          /\ snapshot.child_keys = RetentionExample.child_keys =>
                snapshot.delete_keys = << <<SnapshotLocation(1), 1>> >>

\* The example has been evaluated: day 10, at the cutoff, is retained with
\* days 20, 29 and 40, and day 1 is deleted.
C15_Witness ==
    /\ snapshot.pc = "done"
    /\ snapshot.child_keys = RetentionExample.child_keys
    /\ snapshot.current_datetime - snapshot.retain_days[1] = 10
    /\ <<SnapshotLocation(2), 10>> \in Retained
    /\ Cardinality(Retained) = 4
    /\ snapshot.delete_keys = << <<SnapshotLocation(1), 1>> >>

\* The locations of the index manage_snapshots parsed that it found no
\* marker for.
Orphans ==
    {l \in Range(get_child_locations(snapshot.parsed)) :
        /\ l # UrlLocation
        /\ ~\E m \in snapshot.markers : StartsWith(MarkerKey(m), l)}

C17_OrphanCleanup ==
    (snapshot.pc = "done" /\ snapshot.result = "True") =>
        \A l \in Orphans : l \notin Indexed

\* C18. A run of manage_snapshots changes neither composite document nor
\* the objects of any child.
C18_EvaluationReadOnly ==
    [][snapshot' # snapshot =>
          /\ artifacts' = artifacts
          /\ content' = content
          /\ objects' = objects]_vars

\* A run has put a child in delete_keys and removed another, an orphan,
\* from its tree in memory; the bucket holds the index it parsed and the
\* objects of the child to delete.
C18_Witness ==
    /\ snapshot.pc = "done"
    /\ snapshot.result = "True"
    /\ Len(snapshot.delete_keys) = 1
    /\ Orphans # {}
    /\ snapshot.tree # snapshot.parsed
    /\ artifacts = Stored(snapshot.parsed)
    /\ objects[snapshot.delete_keys[1][1]] = "full"

\* C19. From one stored version of the artifacts document to the next, the
\* p2.timestamp does not decrease, the callers' steps in any order.
C19_TimestampMonotonic ==
    [][(IsDocument(artifacts) /\ IsDocument(artifacts')) =>
          \A before \in Timestamps(artifacts.root) :
             \A after \in Timestamps(artifacts'.root) : after >= before]_vars

\* C20. The artifacts document an add or a remove has stored, and the
\* content document it has stored once completed, have a first <properties>
\* of size 1 holding exactly one p2.timestamp property.
C20_OneTimestampProperty ==
    LET one(object) ==
            /\ IsDocument(object)
            /\ Len(object.root.properties) >= 1
            /\ object.root.properties[1].size = 1
            /\ Len(object.root.properties[1].property) = 1
    IN  \A p \in Procs :
            /\ StoredArtifacts(p) => one(artifacts)
            /\ Completed(p) => one(content)

\* The child has objects in the bucket: all of them, or those of an upload
\* that failed.
HasContent(l) == objects[l] \in {"full", "partial"}

\* C21. After a remove whose index update succeeded and whose deletion of
\* the objects failed, a run of manage_snapshots leaves index and objects in
\* agreement for the child: it is indexed exactly if it has objects.
C21_RepairedByRetention ==
    (/\ frame[1].op = "remove"
     /\ frame[1].pc = "done"
     /\ frame[1].removed = "False"
     /\ snapshot.pc = "done"
     /\ snapshot.result = "True")
    => (frame[1].child \in Indexed <=> HasContent(frame[1].child))

\* C22. An add whose upload of the child repository failed does not return
\* True and stores no artifacts document.
C22_TrueOnlyIfUploaded ==
    \A p \in Procs :
        (frame[p].op = "add" /\ frame[p].uploaded = "False") =>
            /\ frame[p].result # "True"
            /\ ~StoredArtifacts(p)

\* C23. With retain_days 0 no key is deleted for its age: every key of
\* delete_keys came when the retained ones had reached retain_maximum.
C23_AgeZeroRetainsForever ==
    LET keys == SortedNewestFirst(snapshot.child_keys, 1, <<>>)
        RetainedBefore(i) == Cardinality({j \in 1..(i - 1) : keys[j] \in Retained})
    IN  (snapshot.pc = "done" /\ snapshot.retain_days = Some(0)) =>
            \A i \in 1..Len(keys) :
                keys[i] \notin Retained =>
                    /\ ~IsNone(snapshot.retain_maximum)
                    /\ RetainedBefore(i) >= snapshot.retain_maximum[1]

\* C25. When both callers' operations have returned True, the stored
\* content document has the child locations and the timestamp of the stored
\* artifacts document.
C25_MetadataProjectionOfTwo ==
    (\A p \in Procs : frame[p].pc = "done" /\ frame[p].result = "True") =>
        /\ IsDocument(artifacts) /\ IsDocument(content)
        /\ get_child_locations(content.root) = get_child_locations(artifacts.root)
        /\ Timestamps(content.root) = Timestamps(artifacts.root)

\* C26. delete_keys is the tail of the newest-first order: its keys in that
\* order, and none of them modified later than a retained key.
C26_DeleteListIsSuffix ==
    LET keys == SortedNewestFirst(snapshot.child_keys, 1, <<>>)
        n == Len(keys) - Len(snapshot.delete_keys)
    IN  snapshot.pc = "done" =>
          /\ snapshot.delete_keys = SubSeq(keys, n + 1, Len(keys))
          /\ \A d \in Range(snapshot.delete_keys) :
                \A r \in Retained : d[2] <= r[2]

\* A mapping whose first key is its oldest, two keys deleted and two
\* retained, a retained key modified on the same day as a deleted one.
C26_Witness ==
    /\ snapshot.pc = "done"
    /\ Len(snapshot.child_keys) = 4
    /\ \A i \in 2..4 : snapshot.child_keys[1][2] < snapshot.child_keys[i][2]
    /\ Len(snapshot.delete_keys) = 2
    /\ snapshot.child_keys[1] \in Range(snapshot.delete_keys)
    /\ \E d \in Range(snapshot.delete_keys) : \E r \in Retained : d[2] = r[2]

\* C24. When the event is not a dict, or add_repository_to_composite
\* returned False or raised, the handler has reported the job with
\* put_job_failure_result, not with put_job_success_result.
C24_FailureReported ==
    (/\ job.pc = "done"
     /\ \/ job.event \in {"notdict", "mapping"}
        \/ job.event = "publish" /\ frame[1].result \in {"False", "raise"})
    => job.api = "put_job_failure_result"

====
